---- MODULE Spec2Model ----
(***************************************************************************)
(* A model of osuapi: the field converters and domain models of            *)
(* osuapi/model.py and the request methods of osuapi/osu.py.               *)
(*                                                                         *)
(* Python values (JSON-decoded raw values and converted values alike) are  *)
(* records of one shape, so that any two of them can be compared:          *)
(*   k  the kind: "null" (None), "bool", "int", "float", "str", "list",    *)
(*      "dict", "enum" (an Enum member), "date" (a datetime), "obj" (a     *)
(*      model instance)                                                    *)
(*   t  the enum or model type of an "enum" or "obj" value                 *)
(*   n  the number of an int, bool or enum member; the mantissa of a float *)
(*   e  the number of decimals of a float (its value is n / 10^e)          *)
(*   s  the characters of a str; the keys of a dict; the member name of an *)
(*      enum; the attribute names of an obj                                *)
(*   l  the elements of a list; the values of a dict or obj (in the order  *)
(*      of s); the six fields of a date                                    *)
(* A string is the sequence of its characters.                             *)
(***************************************************************************)
EXTENDS Integers, Sequences, FiniteSets, TLC

VARIABLES op,     \* the operation that ran ("pending": none has yet)
          conv,   \* the converter it ran with (a request method: its result type)
          arg,    \* its input
          ret,    \* what it returned or raised
          sent    \* the request handed to the connector's process_request

vars == <<op, conv, arg, ret, sent>>

-----------------------------------------------------------------------------
(* Python values *)

Val(k, t, n, e, s, l) == [k |-> k, t |-> t, n |-> n, e |-> e, s |-> s, l |-> l]

None == Val("null", "", 0, 0, <<>>, <<>>)
BoolV(b) == Val("bool", "", IF b THEN 1 ELSE 0, 0, <<>>, <<>>)
IntV(n) == Val("int", "", n, 0, <<>>, <<>>)
FloatV(n, e) == Val("float", "", n, e, <<>>, <<>>)
StrV(s) == Val("str", "", 0, 0, s, <<>>)
ListV(l) == Val("list", "", 0, 0, <<>>, l)
DictV(keys, vals) == Val("dict", "", 0, 0, keys, vals)
EnumV(t, name, n) == Val("enum", t, n, 0, <<name>>, <<>>)
DateV(Y, m, d, H, M, S) ==
    Val("date", "", 0, 0, <<>>, <<IntV(Y), IntV(m), IntV(d), IntV(H), IntV(M), IntV(S)>>)
ObjV(t, names, vals) == Val("obj", t, 0, 0, names, vals)

(* What a call returns: the value, or the exception it raised (err); a failed
   model construction names the attribute it failed at and, when a converter
   failed, the converter's exception (cause). *)
Ok(v) == [err |-> "", at |-> "", cause |-> "", v |-> v]
Raise(e) == [err |-> e, at |-> "", cause |-> "", v |-> None]
RaiseAt(e, field, cause) == [err |-> e, at |-> field, cause |-> cause, v |-> None]

-----------------------------------------------------------------------------
(* Characters *)

Digits == {"0", "1", "2", "3", "4", "5", "6", "7", "8", "9"}
Whitespace == {" ", "\t"}

DigitVal(c) ==
    CASE c = "0" -> 0 [] c = "1" -> 1 [] c = "2" -> 2 [] c = "3" -> 3
      [] c = "4" -> 4 [] c = "5" -> 5 [] c = "6" -> 6 [] c = "7" -> 7
      [] c = "8" -> 8 [] c = "9" -> 9

DigitChar(n) ==
    CASE n = 0 -> "0" [] n = 1 -> "1" [] n = 2 -> "2" [] n = 3 -> "3"
      [] n = 4 -> "4" [] n = 5 -> "5" [] n = 6 -> "6" [] n = 7 -> "7"
      [] n = 8 -> "8" [] n = 9 -> "9"

AllDigits(s) == \A i \in 1..Len(s) : s[i] \in Digits

RECURSIVE DigitsVal(_)
DigitsVal(s) ==
    IF s = <<>> THEN 0
    ELSE 10 * DigitsVal(SubSeq(s, 1, Len(s) - 1)) + DigitVal(s[Len(s)])

RECURSIVE NatDigits(_)
NatDigits(n) ==
    IF n < 10 THEN <<DigitChar(n)>>
    ELSE Append(NatDigits(n \div 10), DigitChar(n % 10))

(* str.strip(): the string without its leading and trailing whitespace. *)
Strip(s) ==
    LET inside == {i \in 1..Len(s) : s[i] \notin Whitespace}
    IN  IF inside = {} THEN <<>>
        ELSE LET lo == CHOOSE i \in inside : \A j \in inside : i <= j
                 hi == CHOOSE i \in inside : \A j \in inside : j <= i
             IN  SubSeq(s, lo, hi)

-----------------------------------------------------------------------------
(* Python's built-in conversions, as the converters of model.py use them *)

RECURSIVE Pow10(_)
Pow10(e) == IF e = 0 THEN 1 ELSE 10 * Pow10(e - 1)

(* Truncation toward zero of n / 10^e, as int() truncates a float. *)
Trunc(n, e) == IF n >= 0 THEN n \div Pow10(e) ELSE -((-n) \div Pow10(e))

(* A float in its normal form: no trailing zero among its decimals. *)
RECURSIVE NormFloat(_, _)
NormFloat(n, e) ==
    IF e > 0 /\ n % 10 = 0 THEN NormFloat(n \div 10, e - 1) ELSE FloatV(n, e)

(* A numeral without its sign, and the sign. *)
Unsigned(t) == IF t # <<>> /\ t[1] \in {"+", "-"} THEN Tail(t) ELSE t
Sign(t) == IF t # <<>> /\ t[1] = "-" THEN -1 ELSE 1

(* int(it): an int as it is, a bool as 0 or 1, a float truncated toward zero, a
   string parsed as a decimal numeral (whitespace around it stripped, one
   optional sign, at least one digit, nothing else); ValueError for any other
   string, TypeError for None, a list or a dict. *)
PyInt(it) ==
    CASE it.k = "int" -> Ok(IntV(it.n))
      [] it.k = "bool" -> Ok(IntV(it.n))
      [] it.k = "float" -> Ok(IntV(Trunc(it.n, it.e)))
      [] it.k = "str" ->
            LET t == Strip(it.s)
                d == Unsigned(t)
            IN  IF d # <<>> /\ AllDigits(d)
                THEN Ok(IntV(Sign(t) * DigitsVal(d)))
                ELSE Raise("ValueError")
      [] OTHER -> Raise("TypeError")

(* float(it): as int(it), and a string may hold one decimal point, with a digit
   on at least one side of it. *)
PyFloat(it) ==
    CASE it.k = "int" -> Ok(FloatV(it.n, 0))
      [] it.k = "bool" -> Ok(FloatV(it.n, 0))
      [] it.k = "float" -> Ok(NormFloat(it.n, it.e))
      [] it.k = "str" ->
            LET t == Strip(it.s)
                d == Unsigned(t)
                dots == {i \in 1..Len(d) : d[i] = "."}
                dot == IF dots = {} THEN Len(d) + 1 ELSE CHOOSE i \in dots : TRUE
                whole == SubSeq(d, 1, dot - 1)
                frac == SubSeq(d, dot + 1, Len(d))
            IN  IF /\ Cardinality(dots) <= 1
                   /\ AllDigits(whole) /\ AllDigits(frac)
                   /\ Len(whole) + Len(frac) > 0
                THEN Ok(NormFloat(Sign(t) * DigitsVal(whole \o frac), Len(frac)))
                ELSE Raise("ValueError")
      [] OTHER -> Raise("TypeError")

(* str(it) of a scalar: a string as it is, the numeral of an int, the name of
   None, True or False, the decimal form of a float. *)
PyStr(it) ==
    CASE it.k = "str" -> Ok(StrV(it.s))
      [] it.k = "int" ->
            Ok(StrV(IF it.n < 0 THEN <<"-">> \o NatDigits(-it.n) ELSE NatDigits(it.n)))
      [] it.k = "null" -> Ok(StrV(<<"N", "o", "n", "e">>))
      [] it.k = "bool" ->
            Ok(StrV(IF it.n = 1 THEN <<"T", "r", "u", "e">> ELSE <<"F", "a", "l", "s", "e">>))
      [] it.k = "float" ->
            LET f == NormFloat(it.n, it.e)
                a == IF f.n < 0 THEN -f.n ELSE f.n
                whole == NatDigits(a \div Pow10(f.e))
                fd == NatDigits(a % Pow10(f.e))
                frac == IF f.e = 0 THEN <<"0">>
                        ELSE [i \in 1..(f.e - Len(fd)) |-> "0"] \o fd
            IN  Ok(StrV((IF f.n < 0 THEN <<"-">> ELSE <<>>) \o whole \o <<".">> \o frac))

(* bool(it): the truth value; never fails. *)
PyBool(it) ==
    CASE it.k = "null" -> Ok(BoolV(FALSE))
      [] it.k \in {"bool", "int", "float"} -> Ok(BoolV(it.n # 0))
      [] it.k \in {"str", "dict"} -> Ok(BoolV(it.s # <<>>))
      [] it.k = "list" -> Ok(BoolV(it.l # <<>>))
      [] OTHER -> Ok(BoolV(TRUE))

-----------------------------------------------------------------------------
(* The enumerations: each member's name and integer value *)

OsuMode == <<<<"osu", 0>>, <<"taiko", 1>>, <<"ctb", 2>>, <<"mania", 3>>>>

BeatmapStatus ==
    <<<<"graveyard", -2>>, <<"wip", -1>>, <<"pending", 0>>, <<"ranked", 1>>,
      <<"approved", 2>>, <<"qualified", 3>>>>

(* A mutant of BeatmapGenre: the codes renumbered to close the gap at 8. *)
BeatmapGenre_renumbered ==
    <<<<"any", 0>>, <<"unspecified", 1>>, <<"video_game", 2>>, <<"anime", 3>>,
      <<"rock", 4>>, <<"pop", 5>>, <<"other", 6>>, <<"novelty", 7>>,
      <<"hip_hop", 8>>, <<"electronic", 9>>>>

BeatmapGenre ==
    <<<<"any", 0>>, <<"unspecified", 1>>, <<"video_game", 2>>, <<"anime", 3>>,
      <<"rock", 4>>, <<"pop", 5>>, <<"other", 6>>, <<"novelty", 7>>,
      <<"hip_hop", 9>>, <<"electronic", 10>>>>

BeatmapLanguage ==
    <<<<"any", 0>>, <<"other", 1>>, <<"english", 2>>, <<"japanese", 3>>,
      <<"chinese", 4>>, <<"instrumental", 5>>, <<"korean", 6>>, <<"french", 7>>,
      <<"german", 8>>, <<"swedish", 9>>, <<"spanish", 10>>, <<"italian", 11>>>>

EnumTypes == {"OsuMode", "BeatmapStatus", "BeatmapGenre", "BeatmapLanguage"}

Members(E) ==
    CASE E = "OsuMode" -> OsuMode
      [] E = "BeatmapStatus" -> BeatmapStatus
      [] E = "BeatmapGenre" -> BeatmapGenre
      [] E = "BeatmapLanguage" -> BeatmapLanguage

(* EnumT(v): the member whose value is v; ValueError when there is none. *)
EnumCall(E, v) ==
    LET ms == Members(E)
        hit == {i \in 1..Len(ms) : v.k \in {"int", "bool"} /\ ms[i][2] = v.n}
    IN  IF hit = {} THEN Raise("ValueError")
        ELSE LET i == CHOOSE j \in hit : TRUE
             IN  Ok(EnumV(E, ms[i][1], ms[i][2]))

-----------------------------------------------------------------------------
(* Dates: datetime.strptime and str.format with "%Y-%m-%d %H:%M:%S" *)

(* The strings each directive of strptime matches (its regular expression):
   %Y \d\d\d\d;  %m 1[0-2]|0[1-9]|[1-9];  %d 3[0-1]|[1-2]\d|0[1-9]|[1-9]| [1-9];
   %H 2[0-3]|[0-1]\d|\d;  %M [0-5]\d|\d;  %S 6[0-1]|[0-5]\d|\d;
   a space of the format matches \s+. *)
MatchY(x) == Len(x) = 4 /\ AllDigits(x)

MatchMonth(x) ==
    \/ Len(x) = 2 /\ x[1] = "1" /\ x[2] \in {"0", "1", "2"}
    \/ Len(x) = 2 /\ x[1] = "0" /\ x[2] \in Digits \ {"0"}
    \/ Len(x) = 1 /\ x[1] \in Digits \ {"0"}

MatchDay(x) ==
    \/ Len(x) = 2 /\ x[1] = "3" /\ x[2] \in {"0", "1"}
    \/ Len(x) = 2 /\ x[1] \in {"1", "2"} /\ x[2] \in Digits
    \/ Len(x) = 2 /\ x[1] = "0" /\ x[2] \in Digits \ {"0"}
    \/ Len(x) = 1 /\ x[1] \in Digits \ {"0"}
    \/ Len(x) = 2 /\ x[1] = " " /\ x[2] \in Digits \ {"0"}

(* A mutant of MatchH: the 12-hour directive %I (1[0-2]|0[1-9]|[1-9]) for %H. *)
MatchH_12hour(x) ==
    \/ Len(x) = 2 /\ x[1] = "1" /\ x[2] \in {"0", "1", "2"}
    \/ Len(x) = 2 /\ x[1] = "0" /\ x[2] \in Digits \ {"0"}
    \/ Len(x) = 1 /\ x[1] \in Digits \ {"0"}

MatchH(x) ==
    \/ Len(x) = 2 /\ x[1] = "2" /\ x[2] \in {"0", "1", "2", "3"}
    \/ Len(x) = 2 /\ x[1] \in {"0", "1"} /\ x[2] \in Digits
    \/ Len(x) = 1 /\ x[1] \in Digits

MatchM(x) ==
    \/ Len(x) = 2 /\ x[1] \in {"0", "1", "2", "3", "4", "5"} /\ x[2] \in Digits
    \/ Len(x) = 1 /\ x[1] \in Digits

MatchS(x) ==
    \/ Len(x) = 2 /\ x[1] = "6" /\ x[2] \in {"0", "1"}
    \/ Len(x) = 2 /\ x[1] \in {"0", "1", "2", "3", "4", "5"} /\ x[2] \in Digits
    \/ Len(x) = 1 /\ x[1] \in Digits

MatchSpace(x) == Len(x) >= 1 /\ \A i \in 1..Len(x) : x[i] \in Whitespace

(* The whitespace left in s between a day and an hour, given the lengths w of
   the month, the day, the hour, the minute and the second. *)
GapLen(s, w) == Len(s) - (4 + 1 + w[1] + 1 + w[2] + w[3] + 1 + w[4] + 1 + w[5])

(* The ways the whole of s matches the format: the lengths of the month, the
   day, the hour, the minute and the second. strptime fails when the format's
   expression does not match at the start of s, and when text remains after
   the match. *)
DateMatches(s) ==
    {w \in (1..2) \X (1..2) \X (1..2) \X (1..2) \X (1..2) :
        LET d0 == 7 + w[1]
            s0 == d0 + w[2]
            H0 == s0 + GapLen(s, w)
            M0 == H0 + w[3] + 1
            S0 == M0 + w[4] + 1
        IN  /\ GapLen(s, w) >= 1
            /\ MatchY(SubSeq(s, 1, 4))
            /\ s[5] = "-"
            /\ MatchMonth(SubSeq(s, 6, d0 - 2))
            /\ s[d0 - 1] = "-"
            /\ MatchDay(SubSeq(s, d0, s0 - 1))
            /\ MatchSpace(SubSeq(s, s0, H0 - 1))
            /\ MatchH(SubSeq(s, H0, M0 - 2))
            /\ s[M0 - 1] = ":"
            /\ MatchM(SubSeq(s, M0, S0 - 2))
            /\ s[S0 - 1] = ":"
            /\ MatchS(SubSeq(s, S0, Len(s)))}

IsLeap(Y) == Y % 4 = 0 /\ (Y % 100 # 0 \/ Y % 400 = 0)

DaysIn(Y, m) ==
    CASE m \in {4, 6, 9, 11} -> 30
      [] m = 2 -> IF IsLeap(Y) THEN 29 ELSE 28
      [] OTHER -> 31

(* What datetime's constructor accepts. *)
ValidDate(Y, m, d, H, M, S) ==
    /\ Y \in 1..9999 /\ m \in 1..12 /\ d \in 1..DaysIn(Y, m)
    /\ H \in 0..23 /\ M \in 0..59 /\ S \in 0..59

(* DateConverter(val) = datetime.datetime.strptime(val, "%Y-%m-%d %H:%M:%S") *)
DateConverter(val) ==
    IF val.k # "str" THEN Raise("TypeError")
    ELSE LET s == val.s
             ms == DateMatches(s)
         IN  IF ms = {} THEN Raise("ValueError")
             ELSE LET w == CHOOSE x \in ms : TRUE
                      d0 == 7 + w[1]
                      H0 == d0 + w[2] + GapLen(s, w)
                      M0 == H0 + w[3] + 1
                      S0 == M0 + w[4] + 1
                      Y == DigitsVal(SubSeq(s, 1, 4))
                      m == DigitsVal(SubSeq(s, 6, d0 - 2))
                      d == DigitsVal(Strip(SubSeq(s, d0, d0 + w[2] - 1)))
                      H == DigitsVal(SubSeq(s, H0, M0 - 2))
                      M == DigitsVal(SubSeq(s, M0, S0 - 2))
                      S == DigitsVal(SubSeq(s, S0, Len(s)))
                  IN  IF ValidDate(Y, m, d, H, M, S)
                      THEN Ok(DateV(Y, m, d, H, M, S))
                      ELSE Raise("ValueError")

(* A number as two digits, as %m, %d, %H, %M and %S format it. *)
TwoDigits(n) == <<DigitChar(n \div 10), DigitChar(n % 10)>>

(* %Y of a year: four digits where the platform's strftime pads the year with
   zeros, the plain numeral where it does not (glibc). *)
FormatYear(Y, pads) ==
    LET ds == NatDigits(Y)
    IN  IF pads THEN [i \in 1..(4 - Len(ds)) |-> "0"] \o ds ELSE ds

(* "{:%Y-%m-%d %H:%M:%S}".format(since) *)
FormatSince(since, pads) ==
    LET f == since.l
    IN  FormatYear(f[1].n, pads) \o <<"-">> \o TwoDigits(f[2].n) \o <<"-">>
        \o TwoDigits(f[3].n) \o <<" ">> \o TwoDigits(f[4].n) \o <<":">>
        \o TwoDigits(f[5].n) \o <<":">> \o TwoDigits(f[6].n)

-----------------------------------------------------------------------------
(* The converters of model.py. A converter is the sequence of the names it is
   built from: Nullable(JsonList(PreProcessInt(BeatmapStatus))) is
   <<"Nullable", "JsonList", "PreProcessInt", "BeatmapStatus">>. *)

RECURSIVE Apply(_, _), JsonList(_, _), Nullable(_, _), PreProcessInt(_, _), Construct(_, _),
          Converted(_, _)

(* The entries a Python for loop draws from lst: the elements of a list, the
   characters of a string, the keys of a dict. *)
Iterable(lst) == lst.k \in {"list", "str", "dict"}
Entries(lst) ==
    IF lst.k = "list" THEN lst.l ELSE [i \in 1..Len(lst.s) |-> StrV(<<lst.s[i]>>)]

(* The first failure among results, in order. *)
FirstFailure(rs) ==
    LET bad == {i \in 1..Len(rs) : rs[i].err # ""}
    IN  rs[CHOOSE i \in bad : \A j \in bad : i <= j]

(* The list a comprehension builds of the values of rs; the first failure
   among rs leaves no list. *)
Collect(rs) ==
    IF \E i \in 1..Len(rs) : rs[i].err # "" THEN FirstFailure(rs)
    ELSE Ok(ListV([i \in 1..Len(rs) |-> rs[i].v]))

(* A mutant of JsonList: an entry whose conversion fails is skipped. *)
JsonList_partial(oftype, lst) ==
    IF ~Iterable(lst) THEN Raise("TypeError")
    ELSE Collect(SelectSeq([i \in 1..Len(Entries(lst)) |-> Apply(oftype, Entries(lst)[i])],
                           LAMBDA r : r.err = ""))

(* JsonList(oftype)(lst) = [oftype(entry) for entry in lst] *)
JsonList(oftype, lst) ==
    IF ~Iterable(lst) THEN Raise("TypeError")
    ELSE Collect([i \in 1..Len(Entries(lst)) |-> Apply(oftype, Entries(lst)[i])])

(* A mutant of Nullable: "if not it" for "if it is None". *)
Nullable_falsy(oftype, it) ==
    IF PyBool(it).v.n = 0 THEN Ok(None) ELSE Apply(oftype, it)

(* Nullable(oftype)(it) = None if it is None else oftype(it) *)
Nullable(oftype, it) ==
    IF it = None THEN Ok(None) ELSE Apply(oftype, it)

(* A mutant of PreProcessInt: None passes through. *)
PreProcessInt_nullsafe(oftype, it) ==
    IF it = None THEN Ok(None)
    ELSE IF PyInt(it).err # "" THEN PyInt(it) ELSE Apply(oftype, PyInt(it).v)

(* PreProcessInt(oftype)(it) = oftype(int(it)) *)
PreProcessInt(oftype, it) ==
    LET n == PyInt(it)
    IN  IF n.err # "" THEN n ELSE Apply(oftype, n.v)

ModelTypes == {"Score", "TeamScore", "User", "Beatmap", "MatchMetadata", "Game", "Match"}

(* The call oftype(it) of a converter. *)
Apply(oftype, it) ==
    LET f == Head(oftype)
    IN  CASE f = "JsonList" -> JsonList(Tail(oftype), it)
          [] f = "Nullable" -> Nullable(Tail(oftype), it)
          [] f = "PreProcessInt" -> PreProcessInt(Tail(oftype), it)
          [] f = "DateConverter" -> DateConverter(it)
          [] f = "int" -> PyInt(it)
          [] f = "float" -> PyFloat(it)
          [] f = "str" -> PyStr(it)
          [] f = "bool" -> PyBool(it)
          [] f \in EnumTypes -> EnumCall(f, it)
          [] f \in ModelTypes -> Construct(f, it)

-----------------------------------------------------------------------------
(* The domain models: each class's own attributes, in the order of its body *)

(* Attribute(type) of the class attribute called name: read from the key of
   that name; Attribute(type, name=key): read from key. *)
Attribute(name, type) == [name |-> name, key |-> name, conv |-> type]
AttributeNamed(name, type, key) == [name |-> name, key |-> key, conv |-> type]

Score ==
    <<Attribute("beatmap_id", <<"str">>),
      Attribute("score", <<"int">>),
      Attribute("maxcombo", <<"int">>),
      Attribute("count50", <<"int">>),
      Attribute("count100", <<"int">>),
      Attribute("count300", <<"int">>),
      Attribute("countmiss", <<"int">>),
      Attribute("countkatu", <<"int">>),
      Attribute("countgeki", <<"int">>),
      Attribute("perfect", <<"bool">>),
      Attribute("enabled_mods", <<"int">>),
      Attribute("user_id", <<"int">>),
      Attribute("date", <<"DateConverter">>),
      Attribute("rank", <<"str">>),
      Attribute("pp", <<"float">>)>>

(* A mutant of TeamScore: passed declared without name="pass". *)
TeamScore_unnamed ==
    <<Attribute("slot", <<"int">>),
      Attribute("team", <<"int">>),
      Attribute("passed", <<"bool">>)>>

TeamScore ==
    <<Attribute("slot", <<"int">>),
      Attribute("team", <<"int">>),
      AttributeNamed("passed", <<"bool">>, "pass")>>

User ==
    <<Attribute("user_id", <<"int">>),
      Attribute("username", <<"str">>),
      Attribute("count300", <<"int">>),
      Attribute("count100", <<"int">>),
      Attribute("count50", <<"int">>),
      Attribute("playcount", <<"int">>),
      Attribute("ranked_score", <<"int">>),
      Attribute("total_score", <<"int">>),
      Attribute("pp_rank", <<"int">>),
      Attribute("level", <<"float">>),
      Attribute("pp_raw", <<"float">>),
      Attribute("accuracy", <<"float">>),
      Attribute("count_rank_ss", <<"int">>),
      Attribute("count_rank_s", <<"int">>),
      Attribute("count_rank_a", <<"int">>),
      Attribute("country", <<"str">>),
      Attribute("pp_country_rank", <<"int">>),
      Attribute("events", <<"JsonList", "str">>)>>

Beatmap ==
    <<Attribute("approved", <<"PreProcessInt", "BeatmapStatus">>),
      Attribute("approved_date", <<"Nullable", "DateConverter">>),
      Attribute("last_update", <<"DateConverter">>),
      Attribute("artist", <<"str">>),
      Attribute("beatmap_id", <<"int">>),
      Attribute("beatmapset_id", <<"int">>),
      Attribute("bpm", <<"float">>),
      Attribute("creator", <<"str">>),
      Attribute("difficultyrating", <<"float">>),
      Attribute("diff_size", <<"float">>),
      Attribute("diff_overall", <<"float">>),
      Attribute("diff_approach", <<"float">>),
      Attribute("diff_drain", <<"float">>),
      Attribute("hit_length", <<"int">>),
      Attribute("source", <<"str">>),
      Attribute("genre_id", <<"PreProcessInt", "BeatmapGenre">>),
      Attribute("language_id", <<"PreProcessInt", "BeatmapLanguage">>),
      Attribute("title", <<"str">>),
      Attribute("total_length", <<"int">>),
      Attribute("version", <<"str">>),
      Attribute("file_md5", <<"str">>),
      Attribute("mode", <<"PreProcessInt", "OsuMode">>),
      Attribute("tags", <<"str">>),
      Attribute("favourite_count", <<"int">>),
      Attribute("playcount", <<"int">>),
      Attribute("passcount", <<"int">>),
      Attribute("max_combo", <<"Nullable", "int">>)>>

MatchMetadata ==
    <<Attribute("match_id", <<"int">>),
      Attribute("name", <<"str">>),
      Attribute("start_time", <<"DateConverter">>),
      Attribute("end_time", <<"Nullable", "DateConverter">>)>>

Game ==
    <<Attribute("game_id", <<"int">>),
      Attribute("start_time", <<"DateConverter">>),
      Attribute("end_time", <<"DateConverter">>),
      Attribute("beatmap_id", <<"int">>),
      Attribute("play_mode", <<"PreProcessInt", "OsuMode">>),
      Attribute("match_type", <<"str">>),
      Attribute("scoring_type", <<"int">>),
      Attribute("team_type", <<"int">>),
      Attribute("mods", <<"int">>),
      Attribute("scores", <<"JsonList", "TeamScore">>)>>

Match ==
    <<Attribute("match", <<"MatchMetadata">>),
      Attribute("games", <<"JsonList", "Game">>)>>

OwnAttributes(T) ==
    CASE T = "Score" -> Score
      [] T = "TeamScore" -> TeamScore
      [] T = "User" -> User
      [] T = "Beatmap" -> Beatmap
      [] T = "MatchMetadata" -> MatchMetadata
      [] T = "Game" -> Game
      [] T = "Match" -> Match

(* A mutant of Bases: class TeamScore(AttributeModel). *)
Bases_none(T) == <<>>

(* The model classes a class extends (AttributeModel itself declares nothing). *)
Bases(T) == IF T = "TeamScore" THEN <<"Score">> ELSE <<>>

(* The definition of a type: its parents' descriptors, each replaced by the
   type's own descriptor of the same name, then its own new descriptors. *)
RECURSIVE Schema(_)
Schema(T) ==
    LET own == OwnAttributes(T)
        inherited == IF Bases(T) = <<>> THEN <<>> ELSE Schema(Bases(T)[1])
        Own(name) == {i \in 1..Len(own) : own[i].name = name}
        kept == [i \in 1..Len(inherited) |->
                    IF Own(inherited[i].name) = {} THEN inherited[i]
                    ELSE own[CHOOSE j \in Own(inherited[i].name) : TRUE]]
        new == SelectSeq(own, LAMBDA a :
                    \A i \in 1..Len(inherited) : inherited[i].name # a.name)
    IN  kept \o new

HasKey(raw, key) == \E i \in 1..Len(raw.s) : raw.s[i] = key
Lookup(raw, key) == raw.l[CHOOSE i \in 1..Len(raw.s) : raw.s[i] = key]

(* The source keys of schema that raw lacks, as places in schema. *)
Missing(schema, raw) == {i \in 1..Len(schema) : ~HasKey(raw, schema[i].key)}

(* Every descriptor's converter applied to the raw value at its source key. *)
Converted(schema, raw) ==
    [i \in 1..Len(schema) |-> Apply(schema[i].conv, Lookup(raw, schema[i].key))]

(* The instance exposing every attribute under its declared name; the first
   converter that failed fails the construction, with the attribute's name and
   the converter's error. *)
Instance(T, schema, rs) ==
    LET bad == {i \in 1..Len(schema) : rs[i].err # ""}
    IN  IF bad # {}
        THEN LET i == CHOOSE x \in bad : \A j \in bad : x <= j
             IN  RaiseAt("ConversionError", schema[i].name, rs[i].err)
        ELSE Ok(ObjV(T, [i \in 1..Len(schema) |-> schema[i].name],
                        [i \in 1..Len(schema) |-> rs[i].v]))

(* A missing source key fails the construction with a missing-field error
   naming the (first) attribute whose key is missing; no default stands in. *)
Checked(T, schema, raw, missing) ==
    IF missing # {}
    THEN RaiseAt("MissingField", schema[CHOOSE i \in missing : \A j \in missing : i <= j].name, "")
    ELSE Instance(T, schema, Converted(schema, raw))

(* construct(type_definition, raw_object) *)
Construct(T, raw) == Checked(T, Schema(T), raw, Missing(Schema(T), raw))

-----------------------------------------------------------------------------
(* OsuApi: the request methods of osu.py *)

Chars(str) ==
    CASE str = "int" -> <<"i", "n", "t">>
      [] str = "string" -> <<"s", "t", "r", "i", "n", "g">>
      [] str = "key" -> <<"k", "e", "y">>

(* self.key *)
ApiKey == StrV(Chars("key"))

NoRequest == [endpoint |-> "", params |-> DictV(<<>>, <<>>), type |-> <<>>]

(* x.value: the value of an enum member; None has no attribute 'value'. *)
Value(x) == IF x.k = "enum" THEN Ok(IntV(x.n)) ELSE Raise("AttributeError")

(* dict(k1=v1, ...): a keyword whose value raised raises. *)
Dict(keys, rs) ==
    IF \E i \in 1..Len(rs) : rs[i].err # "" THEN FirstFailure(rs)
    ELSE Ok(DictV(keys, [i \in 1..Len(rs) |-> rs[i].v]))

(* {k: v for k, v in data.items() if v is not None} *)
NotNone(data) ==
    LET keep == {i \in 1..Len(data.s) : data.l[i] # None}
        F[i \in 0..Len(data.s)] ==
            IF i = 0 THEN <<>> ELSE IF i \in keep THEN Append(F[i - 1], i) ELSE F[i - 1]
        idx == F[Len(data.s)]
    IN  DictV([j \in 1..Len(idx) |-> data.s[idx[j]]], [j \in 1..Len(idx) |-> data.l[idx[j]]])

(* What _make_req hands to self.connector.process_request. *)
_make_req(endpoint, data, type_) ==
    [endpoint |-> endpoint, params |-> NotNone(data), type |-> type_]

(* A mutant of _username_type: no test for None. *)
_username_type_untested(username) ==
    IF username.k \in {"int", "bool"} THEN StrV(Chars("int")) ELSE StrV(Chars("string"))

_username_type(username) ==
    IF username = None THEN None
    ELSE IF username.k \in {"int", "bool"} THEN StrV(Chars("int")) ELSE StrV(Chars("string"))

(* A request method evaluates the arguments of its call to _make_req, any
   failure among them raising before anything is sent; then the request goes
   to the connector, whose answer is the method's. *)
Returned(data) == IF data.err # "" THEN data ELSE Ok(None)

get_user(username, mode) ==
    LET data == Dict(<<"k", "u", "type", "m">>,
                     <<Ok(ApiKey), Ok(username), Ok(_username_type(username)), Value(mode)>>)
        type_ == <<"JsonList", "User">>
    IN  /\ op = "pending"
        /\ op' = "get_user"
        /\ conv' = type_
        /\ arg' = DictV(<<"username", "mode">>, <<username, mode>>)
        /\ ret' = Returned(data)
        /\ sent' = IF data.err # "" THEN sent ELSE _make_req("USER", data.v, type_)

(* osu.py imports SoloScore from model.py, which defines no SoloScore. *)
get_user_best(username, mode, limit) ==
    LET data == Dict(<<"k", "u", "type", "m", "limit">>,
                     <<Ok(ApiKey), Ok(username), Ok(_username_type(username)), Value(mode),
                       Ok(limit)>>)
        type_ == <<"JsonList", "SoloScore">>
    IN  /\ op = "pending"
        /\ op' = "get_user_best"
        /\ conv' = type_
        /\ arg' = DictV(<<"username", "mode", "limit">>, <<username, mode, limit>>)
        /\ ret' = Returned(data)
        /\ sent' = IF data.err # "" THEN sent ELSE _make_req("USER_BEST", data.v, type_)

get_user_recent(username, mode, limit) ==
    LET data == Dict(<<"k", "u", "type", "m", "limit">>,
                     <<Ok(ApiKey), Ok(username), Ok(_username_type(username)), Value(mode),
                       Ok(limit)>>)
        type_ == <<"JsonList", "Score">>
    IN  /\ op = "pending"
        /\ op' = "get_user_recent"
        /\ conv' = type_
        /\ arg' = DictV(<<"username", "mode", "limit">>, <<username, mode, limit>>)
        /\ ret' = Returned(data)
        /\ sent' = IF data.err # "" THEN sent ELSE _make_req("USER_RECENT", data.v, type_)

get_scores(beatmap_id, username, mode, mods, limit) ==
    LET data == Dict(<<"k", "b", "u", "type", "m", "mods", "limit">>,
                     <<Ok(ApiKey), Ok(beatmap_id), Ok(username),
                       Ok(_username_type(username)), Value(mode), Value(mods), Ok(limit)>>)
        type_ == <<"JsonList", "Score">>
    IN  /\ op = "pending"
        /\ op' = "get_scores"
        /\ conv' = type_
        /\ arg' = DictV(<<"beatmap_id", "username", "mode", "mods", "limit">>,
                        <<beatmap_id, username, mode, mods, limit>>)
        /\ ret' = Returned(data)
        /\ sent' = IF data.err # "" THEN sent ELSE _make_req("SCORES", data.v, type_)

(* pads: whether the platform's strftime pads %Y with zeros. *)
get_beatmaps(since, beatmapset_id, beatmap_id, username, mode, include_converted, beatmap_hash, limit, pads) ==
    LET data == Dict(<<"k", "s", "b", "u", "since", "type", "m", "a", "h", "limit">>,
                     <<Ok(ApiKey), Ok(beatmapset_id), Ok(beatmap_id), Ok(username),
                       Ok(IF since # None THEN StrV(FormatSince(since, pads)) ELSE None),
                       Ok(_username_type(username)), Value(mode), Ok(include_converted),
                       Ok(beatmap_hash), Ok(limit)>>)
        type_ == <<"JsonList", "Beatmap">>
    IN  /\ op = "pending"
        /\ op' = "get_beatmaps"
        /\ conv' = type_
        /\ arg' = DictV(<<"since", "beatmapset_id", "beatmap_id", "username", "mode",
                          "include_converted", "beatmap_hash", "limit">>,
                        <<since, beatmapset_id, beatmap_id, username, mode,
                          include_converted, beatmap_hash, limit>>)
        /\ ret' = Returned(data)
        /\ sent' = IF data.err # "" THEN sent ELSE _make_req("BEATMAPS", data.v, type_)

get_match(match_id) ==
    LET data == Dict(<<"k", "mp">>, <<Ok(ApiKey), Ok(match_id)>>)
        type_ == <<"Match">>
    IN  /\ op = "pending"
        /\ op' = "get_match"
        /\ conv' = type_
        /\ arg' = DictV(<<"match_id">>, <<match_id>>)
        /\ ret' = Returned(data)
        /\ sent' = IF data.err # "" THEN sent ELSE _make_req("MATCH", data.v, type_)

-----------------------------------------------------------------------------
(* Inputs *)

MaxStrLen == 2
MaxListLen == 2

Alphabet == {"0", "1", "2", "3", "8", "9", "-", " ", "a"}

Strings(n) == UNION {[1..m -> Alphabet] : m \in 0..n}

(* Raw JSON scalars: null, booleans, the integers around the enums' codes,
   some floats, and every short string over Alphabet. *)
RawInts == {IntV(n) : n \in (-3..12) \cup {99}}
RawFloats == {FloatV(15, 1), FloatV(85, 1), FloatV(-5, 1), FloatV(-25, 1), FloatV(30, 1)}
RawScalars ==
    {None, BoolV(TRUE), BoolV(FALSE)} \cup RawInts \cup RawFloats
    \cup {StrV(s) : s \in Strings(MaxStrLen)}

ListEntries == {None, IntV(1), IntV(8), IntV(99), StrV(<<"1">>), StrV(<<"-", "2">>), StrV(<<"a">>)}
RawLists == {ListV(l) : l \in UNION {[1..m -> ListEntries] : m \in 0..MaxListLen}}

EnumConverters == {<<"PreProcessInt", E>> : E \in EnumTypes}
EntryConverters ==
    {<<"int">>, <<"str">>, <<"float">>, <<"bool">>, <<"DateConverter">>, <<"Nullable", "int">>}
    \cup EnumConverters

-----------------------------------------------------------------------------
(* The converters, called: a converter is a pure function, so a behaviour is
   one call of one converter on one raw value, both drawn at the start. *)

ListConverters == {<<"JsonList">> \o c : c \in EntryConverters}
NullableConverters ==
    {<<"Nullable">> \o c : c \in EntryConverters}
    \cup {<<"Nullable", "JsonList">> \o c : c \in EnumConverters}

(* str() of a list is left out of the model: no list goes to Nullable(str). *)
Init ==
    /\ op = "pending"
    /\ \/ conv \in EnumConverters /\ arg \in RawScalars \cup {ListV(<<IntV(1)>>)}
       \/ conv \in ListConverters /\ arg \in RawLists \cup {None, IntV(1), StrV(<<"1", "2">>)}
       \/ /\ conv \in NullableConverters
          /\ arg \in RawScalars \cup RawLists
          /\ conv = <<"Nullable", "str">> => arg.k # "list"
    /\ ret = Ok(None)
    /\ sent = NoRequest

CallPreProcessInt ==
    /\ op = "pending"
    /\ Head(conv) = "PreProcessInt"
    /\ op' = "PreProcessInt"
    /\ ret' = PreProcessInt(Tail(conv), arg)
    /\ UNCHANGED <<conv, arg, sent>>

CallJsonList ==
    /\ op = "pending"
    /\ Head(conv) = "JsonList"
    /\ op' = "JsonList"
    /\ ret' = JsonList(Tail(conv), arg)
    /\ UNCHANGED <<conv, arg, sent>>

CallNullable ==
    /\ op = "pending"
    /\ Head(conv) = "Nullable"
    /\ op' = "Nullable"
    /\ ret' = Nullable(Tail(conv), arg)
    /\ UNCHANGED <<conv, arg, sent>>

Next == CallPreProcessInt \/ CallJsonList \/ CallNullable

Spec == Init /\ [][Next]_vars

-----------------------------------------------------------------------------
(* The converters' properties *)

(* The integer codes of each enumeration's closed set. *)
WireCodes(E) ==
    CASE E = "OsuMode" -> 0..3
      [] E = "BeatmapStatus" -> -2..3
      [] E = "BeatmapGenre" -> (0..10) \ {8}
      [] E = "BeatmapLanguage" -> 0..11

Declared(E) == {Members(E)[i] : i \in 1..Len(Members(E))}

(* C2: when the raw value coerces to an integer outside EnumT's closed set,
   PreProcessInt(EnumT) fails, and with an error kind that no raw value that
   cannot be coerced to an integer fails with. *)
C2_UnknownEnumValueDistinguishable ==
    (op = "PreProcessInt" /\ PyInt(arg).err = "" /\ PyInt(arg).v.n \notin WireCodes(conv[2]))
        => /\ ret.err # ""
           /\ \A raw \in RawScalars \cup RawLists :
                PyInt(raw).err # "" => PyInt(raw).err # ret.err

(* C3: PreProcessInt(EnumT) accepts exactly the wire codes of EnumT: a raw
   value that coerces to a code of the closed set yields the member declared
   with that value (raw 1 and "1" yield BeatmapStatus.ranked), and one that
   coerces to any other integer, or to none, fails: no default member. *)
C3_EnumsAcceptExactlyWireCodes ==
    op = "PreProcessInt" =>
        LET E == conv[2]
            n == PyInt(arg)
        IN  /\ (n.err = "" /\ n.v.n \in WireCodes(E)) =>
                  /\ ret.err = ""
                  /\ ret.v.k = "enum" /\ ret.v.t = E /\ ret.v.n = n.v.n
                  /\ <<ret.v.s[1], n.v.n>> \in Declared(E)
            /\ (n.err = "" /\ n.v.n \notin WireCodes(E)) => ret.err # ""
            /\ n.err # "" => ret.err # ""
            /\ (E = "BeatmapStatus" /\ arg \in {IntV(1), StrV(<<"1">>)}) =>
                  ret = Ok(EnumV("BeatmapStatus", "ranked", 1))

(* Genre code 8 reaches PreProcessInt(BeatmapGenre), and fails. *)
C3_Witness ==
    /\ op = "PreProcessInt" /\ conv = <<"PreProcessInt", "BeatmapGenre">>
    /\ arg = IntV(8) /\ ret.err = "ValueError"

(* C5: JsonList(T) of a raw list yields the list of the same length whose i-th
   element is T of the i-th entry, or, when T fails on any entry, fails as a
   whole, returning no list. *)
C5_JsonListMapsInOrder ==
    (op = "JsonList" /\ arg.k = "list") =>
        LET rs == [i \in 1..Len(arg.l) |-> Apply(Tail(conv), arg.l[i])]
        IN  IF \A i \in 1..Len(rs) : rs[i].err = ""
            THEN /\ ret.err = "" /\ ret.v.k = "list"
                 /\ Len(ret.v.l) = Len(arg.l)
                 /\ \A i \in 1..Len(rs) : ret.v.l[i] = rs[i].v
            ELSE ret.err # "" /\ ret.v = None

(* A list of two entries came out as two different values, in order. *)
C5_Witness ==
    /\ op = "JsonList" /\ arg.k = "list" /\ Len(arg.l) = 2
    /\ ret.err = "" /\ Len(ret.v.l) = 2 /\ ret.v.l[1] # ret.v.l[2]
    /\ ret.v.l[1] = Apply(Tail(conv), arg.l[1]).v

(* C6: Nullable(T) of null is the absent marker, whatever T does with null;
   of any other raw value it is T of that value, failing as T fails. *)
C6_NullableShortCircuits ==
    op = "Nullable" =>
        IF arg = None THEN ret = Ok(None) ELSE ret = Apply(Tail(conv), arg)

(* Nullable(T) returned the absent marker for null where T fails on null. *)
C6_Witness ==
    /\ op = "Nullable" /\ arg = None /\ ret = Ok(None)
    /\ Apply(Tail(conv), None).err # ""

(* C7: Nullable(JsonList(PreProcessInt(EnumT))) is absent exactly when the
   whole raw input is null; of a raw list it is the list, in order, of the
   members of the entries coerced to integers, and it fails as a whole when an
   entry is null, malformed or outside EnumT's closed set. *)
C7_ComposedConverter ==
    (op = "Nullable" /\ Len(conv) = 4 /\ SubSeq(conv, 2, 3) = <<"JsonList", "PreProcessInt">>) =>
        LET E == conv[4]
            ns == [i \in 1..Len(arg.l) |-> PyInt(arg.l[i])]
        IN  /\ (ret = Ok(None)) <=> (arg = None)
            /\ arg.k = "list" =>
                  IF \A i \in 1..Len(ns) : ns[i].err = "" /\ ns[i].v.n \in WireCodes(E)
                  THEN /\ ret.err = "" /\ ret.v.k = "list" /\ Len(ret.v.l) = Len(arg.l)
                       /\ \A i \in 1..Len(ns) :
                            /\ ret.v.l[i].k = "enum" /\ ret.v.l[i].t = E
                            /\ ret.v.l[i].n = ns[i].v.n
                  ELSE ret.err # "" /\ ret.v = None
            /\ (arg.k = "list" /\ \E i \in 1..Len(arg.l) : arg.l[i] = None) => ret.err # ""

(* A list holding a null entry went through the composition, and failed. *)
C7_Witness ==
    /\ op = "Nullable" /\ conv = <<"Nullable", "JsonList", "PreProcessInt", "BeatmapStatus">>
    /\ arg.k = "list" /\ \E i \in 1..Len(arg.l) : arg.l[i] = None
    /\ ret.err = "TypeError"

-----------------------------------------------------------------------------
(* The request methods, called: the client keeps nothing from one request to
   the next, so a behaviour is one request on the client as constructed. *)

MaxId == 2

Ids == {IntV(n) : n \in 0..MaxId}
Usernames == {None} \cup Ids \cup {StrV(<<"a">>), StrV(<<"1", "2">>)}
Modes == {EnumV("OsuMode", OsuMode[i][1], OsuMode[i][2]) : i \in 1..Len(OsuMode)}
(* mods: an OsuMod member (a bit mask of mods), or None. *)
Mods == {None, EnumV("OsuMod", "NoMod", 0), EnumV("OsuMod", "Hidden", 8)}
Limits == {IntV(10), IntV(50)}
Hashes == {None, StrV(<<"a">>)}
Sinces == {None, DateV(2014, 1, 2, 3, 4, 5), DateV(999, 12, 31, 23, 59, 59)}

InitApi ==
    /\ op = "pending"
    /\ conv = <<>>
    /\ arg = None
    /\ ret = Ok(None)
    /\ sent = NoRequest

NextApi ==
    \/ \E username \in Usernames, mode \in Modes : get_user(username, mode)
    \/ \E username \in Usernames, mode \in Modes, limit \in Limits :
          get_user_best(username, mode, limit)
    \/ \E username \in Usernames, mode \in Modes, limit \in Limits :
          get_user_recent(username, mode, limit)
    \/ \E beatmap_id \in Ids, username \in Usernames, mode \in Modes, mods \in Mods,
          limit \in Limits :
          get_scores(beatmap_id, username, mode, mods, limit)
    \/ \E since \in Sinces, beatmapset_id \in {None, IntV(1)}, beatmap_id \in {None} \cup Ids,
          username \in Usernames, mode \in Modes, include_converted \in {BoolV(FALSE), BoolV(TRUE)},
          beatmap_hash \in Hashes, limit \in Limits, pads \in BOOLEAN :
          get_beatmaps(since, beatmapset_id, beatmap_id, username, mode, include_converted,
                       beatmap_hash, limit, pads)
    \/ \E match_id \in Ids : get_match(match_id)

SpecApi == InitApi /\ [][NextApi]_vars

RequestMethods ==
    {"get_user", "get_user_best", "get_user_recent", "get_scores", "get_beatmaps", "get_match"}

(* The optional inputs of the request methods, and the parameter each goes
   out as. *)
Optional ==
    <<<<"username", "u">>, <<"mods", "mods">>, <<"since", "since">>,
      <<"beatmapset_id", "s">>, <<"beatmap_id", "b">>, <<"beatmap_hash", "h">>>>

(* C1: every request method, whichever optional inputs are absent, reaches the
   connector, with a parameter set that holds no null value and none of the
   parameters of the absent inputs. *)
C1_AbsentOptionalsOmitted ==
    op \in RequestMethods =>
        /\ ret.err = ""
        /\ sent # NoRequest
        /\ \A i \in 1..Len(sent.params.l) : sent.params.l[i] # None
        /\ \A i \in 1..Len(Optional) :
              (HasKey(arg, Optional[i][1]) /\ Lookup(arg, Optional[i][1]) = None)
                  => ~HasKey(sent.params, Optional[i][2])

(* C4: in every parameter set handed to the connector: a numeric username
   goes out as u with type "int", a text one as u with type "string", an
   absent one as neither; so u is there exactly when type is, and type is
   "int" exactly when u is an integer. *)
C4_UsernameType ==
    (op \in RequestMethods /\ sent # NoRequest) =>
        LET p == sent.params
        IN  /\ HasKey(p, "u") <=> HasKey(p, "type")
            /\ HasKey(p, "type") =>
                  /\ Lookup(p, "type") \in {StrV(Chars("int")), StrV(Chars("string"))}
                  /\ (Lookup(p, "type") = StrV(Chars("int"))) <=> (Lookup(p, "u").k = "int")
            /\ HasKey(arg, "username") =>
                  LET username == Lookup(arg, "username")
                  IN  /\ username.k = "int" =>
                            /\ HasKey(p, "u") /\ Lookup(p, "u") = username
                            /\ Lookup(p, "type") = StrV(Chars("int"))
                      /\ username.k = "str" =>
                            /\ HasKey(p, "u") /\ Lookup(p, "u") = username
                            /\ Lookup(p, "type") = StrV(Chars("string"))
                      /\ username = None => ~HasKey(p, "u") /\ ~HasKey(p, "type")
            /\ ~HasKey(arg, "username") => ~HasKey(p, "u")

(* get_scores handed over the parameters of a numeric username. *)
C4_Witness ==
    /\ op = "get_scores" /\ Lookup(arg, "username") = IntV(2)
    /\ sent.endpoint = "SCORES"
    /\ Lookup(sent.params, "u") = IntV(2)
    /\ Lookup(sent.params, "type") = StrV(Chars("int"))

-----------------------------------------------------------------------------
(* Dates, parsed and serialized: a behaviour is one call of DateConverter on
   a raw value, or one get_beatmaps with a 'since' timestamp. *)


(* Date strings: a year, a month, a day, an hour, a minute and a second, each
   written in one of several ways, between separators of several kinds, with
   or without text after them. *)
YearTexts == {<<"2", "0", "1", "4">>, <<"2", "0", "1", "2">>, <<"9", "9", "9">>}
MonthTexts == {<<"0", "2">>, <<"2">>, <<"1", "2">>, <<"1", "3">>}
DayTexts == {<<"0", "2">>, <<"2">>, <<" ", "2">>, <<"2", "9">>, <<"3", "1">>}
HourTexts == {<<"0", "3">>, <<"3">>, <<"2", "4">>}
MinuteTexts == {<<"0", "4">>, <<"4">>, <<"6", "0">>}
SecondTexts == {<<"0", "5">>, <<"5">>, <<"6", "0">>}
DateSeparators == {<<"-">>, <<"/">>}
Gaps == {<<" ">>, <<" ", " ">>, <<"\t">>, <<"T">>}
Endings == {<<>>, <<" ">>}

DateStrings ==
    {Y \o p \o m \o p \o d \o g \o H \o <<":">> \o M \o <<":">> \o S \o z :
        Y \in YearTexts, p \in DateSeparators, m \in MonthTexts, d \in DayTexts,
        g \in Gaps, H \in HourTexts, M \in MinuteTexts, S \in SecondTexts, z \in Endings}

(* Whole-second timestamps: the corners of datetime's range and of each field. *)
Timestamps ==
    {DateV(Y, m, d, H, M, S) :
        Y \in {1, 999, 1000, 2014, 9999}, m \in {1, 2, 12}, d \in {1, 9, 28, 31},
        H \in {0, 3, 23}, M \in {0, 59}, S \in {0, 5, 59}}

Text(str) ==
    CASE str = "2014-01-02 03:04:05" ->
            <<"2", "0", "1", "4", "-", "0", "1", "-", "0", "2", " ",
              "0", "3", ":", "0", "4", ":", "0", "5">>

InitDate ==
    /\ op = "pending"
    /\ \/ /\ conv = <<"DateConverter">>
          /\ arg \in {StrV(s) : s \in DateStrings}
                      \cup {StrV(Text("2014-01-02 03:04:05")), None, IntV(2014), StrV(<<>>)}
       \/ /\ conv = <<>>
          /\ arg \in {d \in Timestamps :
                        ValidDate(d.l[1].n, d.l[2].n, d.l[3].n, d.l[4].n, d.l[5].n, d.l[6].n)}
    /\ ret = Ok(None)
    /\ sent = NoRequest

CallDateConverter ==
    /\ op = "pending"
    /\ conv = <<"DateConverter">>
    /\ op' = "DateConverter"
    /\ ret' = DateConverter(arg)
    /\ UNCHANGED <<conv, arg, sent>>

NextDate ==
    \/ CallDateConverter
    \/ \E pads \in BOOLEAN :
          /\ arg.k = "date"
          /\ get_beatmaps(arg, None, None, None, EnumV("OsuMode", "osu", 0), BoolV(FALSE),
                          None, IntV(500), pads)

SpecDate == InitDate /\ [][NextDate]_vars

(* The exact form YYYY-MM-DD HH:MM:SS. *)
Canonical(s) ==
    /\ Len(s) = 19
    /\ \A i \in {1, 2, 3, 4, 6, 7, 9, 10, 12, 13, 15, 16, 18, 19} : s[i] \in Digits
    /\ s[5] = "-" /\ s[8] = "-" /\ s[11] = " " /\ s[14] = ":" /\ s[17] = ":"

(* The since parameter of the request sent parses back to the since given. *)
RoundTrip ==
    DateConverter(Lookup(sent.params, "since")) = Ok(Lookup(arg, "since"))

(* C10: as stated: DateConverter parses "2014-01-02 03:04:05" to its six
   fields and fails on every string that is not of the exact form; and the
   since parameter get_beatmaps sends for a timestamp parses back to it. *)
C10_ExactFormatBothWays ==
    /\ (op = "DateConverter" /\ arg = StrV(Text("2014-01-02 03:04:05")))
          => ret = Ok(DateV(2014, 1, 2, 3, 4, 5))
    /\ (op = "DateConverter" /\ ~(arg.k = "str" /\ Canonical(arg.s))) => ret.err # ""
    /\ (op = "get_beatmaps" /\ sent # NoRequest /\ Lookup(arg, "since") # None) => RoundTrip

(* A string cut into its runs of digits and the runs of other characters
   between them. *)
Joined(c, rest) ==
    IF rest # <<>> /\ ((Head(rest)[1] \in Digits) <=> (c \in Digits))
    THEN <<<<c>> \o Head(rest)>> \o Tail(rest)
    ELSE <<<<c>>>> \o rest

RECURSIVE Tokens(_)
Tokens(s) == IF s = <<>> THEN <<>> ELSE Joined(Head(s), Tokens(Tail(s)))

(* The strings of the one format, leniently written: a four-digit year, then
   month, day, hour, minute and second of one or two digits each (a one-digit
   day may follow a space), with '-', '-', whitespace, ':' and ':' between. *)
Lenient(k) ==
    /\ Len(k) = 11
    /\ Len(k[1]) = 4 /\ AllDigits(k[1])
    /\ \A i \in {3, 5, 7, 9, 11} : Len(k[i]) \in 1..2 /\ AllDigits(k[i])
    /\ k[2] = <<"-">>
    /\ k[4] = <<"-">> \/ (k[4] = <<"-", " ">> /\ Len(k[5]) = 1)
    /\ \A i \in 1..Len(k[6]) : k[6][i] \in Whitespace
    /\ k[8] = <<":">> /\ k[10] = <<":">>

Denotes(k) ==
    DateV(DigitsVal(k[1]), DigitsVal(k[3]), DigitsVal(k[5]), DigitsVal(k[7]),
          DigitsVal(k[9]), DigitsVal(k[11]))

IsDate(v) == ValidDate(v.l[1].n, v.l[2].n, v.l[3].n, v.l[4].n, v.l[5].n, v.l[6].n)

(* C10, amended: DateConverter knows the one format: it parses
   "2014-01-02 03:04:05" to its six fields, and accepts exactly the strings
   that write a valid date and time in that format leniently (month, day,
   hour, minute and second of one digit or two, any run of whitespace between
   the date and the time), returning the timestamp they denote; and for a
   timestamp of a four-digit year the since parameter get_beatmaps sends is
   of the exact form and parses back to the timestamp. *)
C10_OneFormatLenientlyParsed ==
    /\ (op = "DateConverter" /\ arg = StrV(Text("2014-01-02 03:04:05")))
          => ret = Ok(DateV(2014, 1, 2, 3, 4, 5))
    /\ (op = "DateConverter" /\ arg.k # "str") => ret.err # ""
    /\ (op = "DateConverter" /\ arg.k = "str") =>
          IF Lenient(Tokens(arg.s)) /\ IsDate(Denotes(Tokens(arg.s)))
          THEN ret = Ok(Denotes(Tokens(arg.s)))
          ELSE ret.err # ""
    /\ (op = "get_beatmaps" /\ sent # NoRequest /\ Lookup(arg, "since") # None
            /\ Lookup(arg, "since").l[1].n >= 1000)
          => Canonical(Lookup(sent.params, "since").s) /\ RoundTrip

(* A date written with one-digit fields and two spaces was parsed. *)
C10_Witness ==
    /\ op = "DateConverter" /\ arg.k = "str" /\ ~Canonical(arg.s)
    /\ ret = Ok(DateV(2014, 2, 2, 3, 4, 5))
    /\ Len(arg.s) = 15

-----------------------------------------------------------------------------
(* The models, constructed: a behaviour is the construction of one model from
   one raw object. *)

(* The object the API answers with for each model: every key, with a value in
   the API's form (numbers and dates as strings). *)
RawScore ==
    DictV(<<"beatmap_id", "score", "maxcombo", "count50", "count100", "count300",
          "countmiss", "countkatu", "countgeki", "perfect", "enabled_mods", "user_id",
          "date", "rank", "pp">>,
          <<StrV(<<"a">>),
           StrV(<<"1", "2">>),
           StrV(<<"1", "2">>),
           StrV(<<"1", "2">>),
           StrV(<<"1", "2">>),
           StrV(<<"1", "2">>),
           StrV(<<"1", "2">>),
           StrV(<<"1", "2">>),
           StrV(<<"1", "2">>),
           StrV(<<"1">>),
           StrV(<<"1", "2">>),
           StrV(<<"1", "2">>),
           StrV(Text("2014-01-02 03:04:05")),
           StrV(<<"a">>),
           StrV(<<"1", ".", "5">>)>>)

RawTeamScore ==
    DictV(<<"beatmap_id", "score", "maxcombo", "count50", "count100", "count300",
          "countmiss", "countkatu", "countgeki", "perfect", "enabled_mods", "user_id",
          "date", "rank", "pp", "slot", "team", "pass">>,
          <<StrV(<<"a">>),
           StrV(<<"1", "2">>),
           StrV(<<"1", "2">>),
           StrV(<<"1", "2">>),
           StrV(<<"1", "2">>),
           StrV(<<"1", "2">>),
           StrV(<<"1", "2">>),
           StrV(<<"1", "2">>),
           StrV(<<"1", "2">>),
           StrV(<<"1">>),
           StrV(<<"1", "2">>),
           StrV(<<"1", "2">>),
           StrV(Text("2014-01-02 03:04:05")),
           StrV(<<"a">>),
           StrV(<<"1", ".", "5">>),
           StrV(<<"1", "2">>),
           StrV(<<"1", "2">>),
           StrV(<<"1">>)>>)

RawUser ==
    DictV(<<"user_id", "username", "count300", "count100", "count50", "playcount",
          "ranked_score", "total_score", "pp_rank", "level", "pp_raw", "accuracy",
          "count_rank_ss", "count_rank_s", "count_rank_a", "country", "pp_country_rank",
          "events">>,
          <<StrV(<<"1", "2">>),
           StrV(<<"a">>),
           StrV(<<"1", "2">>),
           StrV(<<"1", "2">>),
           StrV(<<"1", "2">>),
           StrV(<<"1", "2">>),
           StrV(<<"1", "2">>),
           StrV(<<"1", "2">>),
           StrV(<<"1", "2">>),
           StrV(<<"1", ".", "5">>),
           StrV(<<"1", ".", "5">>),
           StrV(<<"1", ".", "5">>),
           StrV(<<"1", "2">>),
           StrV(<<"1", "2">>),
           StrV(<<"1", "2">>),
           StrV(<<"a">>),
           StrV(<<"1", "2">>),
           ListV(<<StrV(<<"a">>)>>)>>)

RawBeatmap ==
    DictV(<<"approved", "approved_date", "last_update", "artist", "beatmap_id",
          "beatmapset_id", "bpm", "creator", "difficultyrating", "diff_size",
          "diff_overall", "diff_approach", "diff_drain", "hit_length", "source",
          "genre_id", "language_id", "title", "total_length", "version", "file_md5",
          "mode", "tags", "favourite_count", "playcount", "passcount", "max_combo">>,
          <<StrV(<<"1">>),
           None,
           StrV(Text("2014-01-02 03:04:05")),
           StrV(<<"a">>),
           StrV(<<"1", "2">>),
           StrV(<<"1", "2">>),
           StrV(<<"1", ".", "5">>),
           StrV(<<"a">>),
           StrV(<<"1", ".", "5">>),
           StrV(<<"1", ".", "5">>),
           StrV(<<"1", ".", "5">>),
           StrV(<<"1", ".", "5">>),
           StrV(<<"1", ".", "5">>),
           StrV(<<"1", "2">>),
           StrV(<<"a">>),
           StrV(<<"1">>),
           StrV(<<"1">>),
           StrV(<<"a">>),
           StrV(<<"1", "2">>),
           StrV(<<"a">>),
           StrV(<<"a">>),
           StrV(<<"1">>),
           StrV(<<"a">>),
           StrV(<<"1", "2">>),
           StrV(<<"1", "2">>),
           StrV(<<"1", "2">>),
           StrV(<<"1", "2">>)>>)

RawMatchMetadata ==
    DictV(<<"match_id", "name", "start_time", "end_time">>,
          <<StrV(<<"1", "2">>),
           StrV(<<"a">>),
           StrV(Text("2014-01-02 03:04:05")),
           None>>)

RawGame ==
    DictV(<<"game_id", "start_time", "end_time", "beatmap_id", "play_mode", "match_type",
          "scoring_type", "team_type", "mods", "scores">>,
          <<StrV(<<"1", "2">>),
           StrV(Text("2014-01-02 03:04:05")),
           StrV(Text("2014-01-02 03:04:05")),
           StrV(<<"1", "2">>),
           StrV(<<"1">>),
           StrV(<<"a">>),
           StrV(<<"1", "2">>),
           StrV(<<"1", "2">>),
           StrV(<<"1", "2">>),
           ListV(<<RawTeamScore>>)>>)

RawMatch ==
    DictV(<<"match", "games">>,
          <<RawMatchMetadata,
           ListV(<<RawGame>>)>>)

RawObject(T) ==
    CASE T = "Score" -> RawScore
      [] T = "TeamScore" -> RawTeamScore
      [] T = "User" -> RawUser
      [] T = "Beatmap" -> RawBeatmap
      [] T = "MatchMetadata" -> RawMatchMetadata
      [] T = "Game" -> RawGame
      [] T = "Match" -> RawMatch

(* raw without the keys at the places D. *)
Without(raw, D) ==
    LET F[i \in 0..Len(raw.s)] ==
            IF i = 0 THEN <<>> ELSE IF i \in D THEN F[i - 1] ELSE Append(F[i - 1], i)
        idx == F[Len(raw.s)]
    IN  DictV([j \in 1..Len(idx) |-> raw.s[idx[j]]], [j \in 1..Len(idx) |-> raw.l[idx[j]]])

(* raw with the value at place i replaced (i = 0: raw as it is). *)
Replaced(raw, i, v) ==
    DictV(raw.s, [j \in 1..Len(raw.l) |-> IF j = i THEN v ELSE raw.l[j]])

(* raw with one more key. *)
Extended(raw, key, v) == DictV(Append(raw.s, key), Append(raw.l, v))

(* Values the API might hold in place of a scalar: null, text that is no
   number, the empty string, a number outside every enum. *)
OddValues == {None, StrV(<<"a">>), StrV(<<>>), StrV(<<"9", "9">>)}

(* The raw objects of T: the API's object, with any one scalar replaced by an
   odd value, without any one key or two neighbouring keys, and with or
   without a key "passed" the models do not declare. *)
RawObjects(T) ==
    LET raw == RawObject(T)
        n == Len(raw.s)
        variants ==
            {raw} \cup {Replaced(raw, i, v) : i \in {j \in 1..n : raw.l[j].k \in {"str", "null"}},
                                              v \in OddValues}
        drops == {{}} \cup {{i} : i \in 1..n} \cup {{i, i + 1} : i \in 1..(n - 1)}
    IN  {Without(r, D) : r \in variants, D \in drops}
        \cup {Extended(Without(r, D), "passed", StrV(<<>>)) : r \in variants, D \in drops}

InitModel ==
    /\ op = "pending"
    /\ \E T \in ModelTypes : conv = <<T>> /\ arg \in RawObjects(T)
    /\ ret = Ok(None)
    /\ sent = NoRequest

CallModel ==
    /\ op = "pending"
    /\ Head(conv) \in ModelTypes
    /\ op' = "construct"
    /\ ret' = Construct(Head(conv), arg)
    /\ UNCHANGED <<conv, arg, sent>>

NextModel == CallModel

SpecModel == InitModel /\ [][NextModel]_vars

(* C8: a TeamScore constructed from a raw object exposes every attribute of
   Score, each converted from Score's source key by Score's converter, and
   slot, team and passed, passed being read from the key "pass", never from a
   key "passed", and exposed as 'passed', never as 'pass'. *)
C8_TeamScoreExtendsScore ==
    (op = "construct" /\ conv = <<"TeamScore">>) =>
        /\ ~HasKey(arg, "pass") => ret.err # ""
        /\ ret.err = "" =>
              /\ ret.v.k = "obj" /\ ret.v.t = "TeamScore"
              /\ Len(ret.v.s) = 18
              /\ {ret.v.s[i] : i \in 1..Len(ret.v.s)} =
                    {"beatmap_id", "score", "maxcombo", "count50", "count100", "count300",
                     "countmiss", "countkatu", "countgeki", "perfect", "enabled_mods",
                     "user_id", "date", "rank", "pp", "slot", "team", "passed"}
              /\ \A i \in 1..Len(Score) :
                    /\ Score[i].key = Score[i].name
                    /\ Lookup(ret.v, Score[i].name)
                          = Apply(Score[i].conv, Lookup(arg, Score[i].key)).v
              /\ Lookup(ret.v, "slot") = PyInt(Lookup(arg, "slot")).v
              /\ Lookup(ret.v, "team") = PyInt(Lookup(arg, "team")).v
              /\ Lookup(ret.v, "passed") = PyBool(Lookup(arg, "pass")).v

(* A TeamScore was constructed from an object holding both "pass" and
   "passed", of different truth: its passed is that of "pass". *)
C8_Witness ==
    /\ op = "construct" /\ conv = <<"TeamScore">> /\ ret.err = ""
    /\ HasKey(arg, "passed") /\ PyBool(Lookup(arg, "passed")).v = BoolV(FALSE)
    /\ Lookup(ret.v, "passed") = BoolV(TRUE)
    /\ Lookup(ret.v, "pp") = FloatV(15, 1)

(* The source keys of each model's declared attributes, own and inherited. *)
DeclaredKeys(T) == {RawObject(T).s[i] : i \in 1..Len(RawObject(T).s)}

(* C9: the construction of any model from a raw object that lacks the source
   key of a declared attribute fails with a missing-field error naming an
   attribute whose key is missing; no instance comes of it. *)
C9_MissingFieldFails ==
    (op = "construct" /\ \E k \in DeclaredKeys(Head(conv)) : ~HasKey(arg, k)) =>
        /\ ret.err = "MissingField"
        /\ ret.v = None
        /\ LET key == IF ret.at = "passed" THEN "pass" ELSE ret.at
           IN  key \in DeclaredKeys(Head(conv)) /\ ~HasKey(arg, key)

(* A TeamScore's raw object lacked the inherited key "pp" alone, and the
   construction failed naming pp. *)
C9_Witness ==
    /\ op = "construct" /\ conv = <<"TeamScore">>
    /\ ~HasKey(arg, "pp") /\ Len(arg.s) = 17
    /\ ret.err = "MissingField" /\ ret.at = "pp"

====
